---- MODULE Spec2Model ----
(***************************************************************************)
(* Security Incident Management System: the incident lifecycle as the      *)
(* browser clients drive it against the hosted store.                      *)
(*                                                                         *)
(*   store    incidents, incident_updates (tables of the migration, with   *)
(*            their defaults, NOT NULL constraints, row-level policies and *)
(*            the updated_at trigger), objects (the evidence bucket)       *)
(*   clients  one browser session each: the account signed in, the         *)
(*            IncidentForm and IncidentDetails component state, and the    *)
(*            position of the mutation in flight (every await of a         *)
(*            mutationFn is one step)                                      *)
(***************************************************************************)
EXTENDS Integers, Sequences, FiniteSets, TLC

VARIABLES
    incidents,         \* table public.incidents; the row id is its index
    incident_updates,  \* table public.incident_updates, in insertion order
    objects,           \* paths stored in the bucket incident-evidence
    now,               \* the clock read by now(), new Date() and Date.now()
    session,           \* per client: the signed-in account, or NoUser
    pc,                \* per client: the await the mutation in flight is at
    mutation,          \* per client: [op, status, error] of the last mutation
    user,              \* per client: `user` returned by auth.getUser()
    arg,               \* per client: the argument the mutationFn closed over
    evidenceUrls,      \* per client: createIncident's local evidenceUrls
    showForm,          \* per client: Dashboard state showForm
    selected,          \* per client: incidentId of the open IncidentDetails
    newUpdate,         \* per client: IncidentDetails state newUpdate
    statusUpdate,      \* per client: IncidentDetails state statusUpdate
    listData,          \* per client: data of IncidentList's query ["incidents"]
    searchQuery,       \* per client: IncidentList state searchQuery
    statusFilter,      \* per client: IncidentList state statusFilter
    priorityFilter,    \* per client: IncidentList state priorityFilter
    filteredIncidents, \* per client: the list IncidentList renders
    analytics,         \* per client: data of Analytics' query and what it renders
    incidentData       \* per client: data of IncidentDetails' query ["incident", id]

vars == <<incidents, incident_updates, objects, now, session, pc,
          mutation, user, arg, evidenceUrls, showForm, selected, newUpdate,
          statusUpdate, listData, searchQuery, statusFilter, priorityFilter,
          filteredIncidents, analytics, incidentData>>

store == <<incidents, incident_updates, objects>>
env == <<now, session>>
locals == <<user, arg, evidenceUrls>>
details == <<selected, newUpdate, statusUpdate>>
filters == <<searchQuery, statusFilter, priorityFilter>>
lists == <<listData, filters, filteredIncidents, analytics>>
views == <<lists, incidentData>>

(***************************************************************************)
(* Bounds of the model.                                                    *)
(***************************************************************************)
MaxIncidents == 1
MaxUpdates == 2
MaxClock == 2
MaxListed == 2

Clients == {"c1", "c2"}
Users == {"u1", "u2"}
NoUser == "none"
NullTime == 0
NoIncident == 0

(***************************************************************************)
(* Domains.                                                                *)
(***************************************************************************)
Statuses == {"open", "in_progress", "resolved", "closed"}
Priorities == {"low", "medium", "high", "critical"}

\* Text is a sequence of characters; the texts a user types in the model.
Texts == {<<>>, <<" ">>, <<"a">>}
FieldTexts == {<<>>, <<"a">>}
\* The value of the category Select: "" until an item is picked.
CategoryValues == {"", "theft"}
\* The selections of the file input, each file by its name's extension.
FileSelections == {<<>>, <<"png">>}

RECURSIVE TrimStart(_)
TrimStart(s) ==
    IF s = <<>> THEN <<>>
    ELSE IF Head(s) = " " THEN TrimStart(Tail(s)) ELSE s

RECURSIVE TrimEnd(_)
TrimEnd(s) ==
    IF s = <<>> THEN <<>>
    ELSE IF s[Len(s)] = " " THEN TrimEnd(SubSeq(s, 1, Len(s) - 1)) ELSE s

\* String.prototype.trim
Trim(s) == TrimEnd(TrimStart(s))

\* `Status changed to: ${status}`
StatusChangeContent(status) == <<"Status changed to: ", status>>

IdleMutation == [op |-> "none", status |-> "idle", error |-> "none"]
NoArg == [kind |-> "none"]

(***************************************************************************)
(* The store: column defaults, constraints, policies, trigger.             *)
(***************************************************************************)
\* Columns the insert leaves out take their DEFAULT; resolved_at and
\* assigned_to have none and are NULL.
IncidentRow(payload, t) ==
    [ title        |-> payload.title,
      description  |-> payload.description,
      status       |-> IF "status" \in DOMAIN payload THEN payload.status ELSE "open",
      priority     |-> IF "priority" \in DOMAIN payload THEN payload.priority ELSE "medium",
      category     |-> payload.category,
      location     |-> payload.location,
      reporter_id  |-> payload.reporter_id,
      assigned_to  |-> NoUser,
      evidence_urls |-> payload.evidence_urls,
      created_at   |-> t,
      updated_at   |-> t,
      resolved_at  |-> NullTime ]

\* NOT NULL columns of public.incidents ('' is not NULL) and the enum types.
IncidentConstraints(row) ==
    /\ row.reporter_id \in Users
    /\ row.status \in Statuses
    /\ row.priority \in Priorities

\* Mutant: the policy admits any signed-in account, whatever reporter_id says.
IncidentInsertPolicyAnyAccount(uid, row) == uid # NoUser

\* "Authenticated users can create incidents": WITH CHECK (auth.uid() = reporter_id)
IncidentInsertPolicy(uid, row) == uid # NoUser /\ uid = row.reporter_id

\* Mutant: only the reporter may update an incident.
IncidentUpdatePolicyReporterOnly(uid, row) == uid # NoUser /\ uid = row.reporter_id

\* "Authenticated users can update incidents": TO authenticated USING (true)
IncidentUpdatePolicy(uid, row) == uid # NoUser

\* update_updated_at_column(), BEFORE UPDATE ON public.incidents
UpdatedAtTrigger(row, t) == [row EXCEPT !.updated_at = t]

UpdateRow(incidentId, uid, type, content, t) ==
    [ incident_id |-> incidentId,
      user_id     |-> uid,
      update_type |-> type,
      content     |-> content,
      created_at  |-> t ]

\* NOT NULL and foreign keys of public.incident_updates
UpdateConstraints(row) ==
    /\ row.user_id \in Users
    /\ row.incident_id \in 1..Len(incidents)

\* "Authenticated users can create incident updates": WITH CHECK (auth.uid() = user_id)
UpdateInsertPolicy(uid, row) == uid # NoUser /\ uid = row.user_id

\* "Authenticated users can upload incident evidence": TO authenticated
UploadPolicy(uid) == uid # NoUser

(***************************************************************************)
(* The read side: the queries of IncidentList and Analytics and what the   *)
(* components derive from their data on every render.                      *)
(***************************************************************************)
\* The data of a query: undefined until the query has answered.
NotLoaded == [loaded |-> FALSE, rows |-> <<>>]
Loaded(rows) == [loaded |-> TRUE, rows |-> rows]

\* "Authenticated users can view all incidents": TO authenticated USING (true)
IncidentSelectPolicy(uid, row) == uid # NoUser

\* The ids of the rows of public.incidents a SELECT as account uid sees.
VisibleIncidents(uid) ==
    {i \in 1..Len(incidents) : IncidentSelectPolicy(uid, incidents[i])}

\* The orders in which a set of n row ids can be returned.
Orders(ids) ==
    {p \in [1..Cardinality(ids) -> ids] :
        \A a, b \in 1..Cardinality(ids) : a # b => p[a] # p[b]}

\* Mutant: .order("created_at", { ascending: true })
OrderedByCreatedAtAscending(p) ==
    \A a, b \in DOMAIN p :
        a < b => incidents[p[a]].created_at <= incidents[p[b]].created_at

\* .order("created_at", { ascending: false }): rows of equal created_at
\* come in an order the store chooses.
OrderedByCreatedAt(p) ==
    \A a, b \in DOMAIN p :
        a < b => incidents[p[a]].created_at >= incidents[p[b]].created_at

\* select("*"): the row with its id column.
SelectedRow(i) == [id |-> i] @@ incidents[i]

\* The answers the store can give to
\* from("incidents").select("*").order("created_at", { ascending: false })
SelectIncidents(uid) ==
    { [k \in DOMAIN p |-> SelectedRow(p[k])] :
        p \in {q \in Orders(VisibleIncidents(uid)) : OrderedByCreatedAt(q)} }

\* String.prototype.toLowerCase, on the letters of the model's texts
LowerCaseLetter(ch) ==
    CASE ch = "A" -> "a"
      [] ch = "B" -> "b"
      [] OTHER -> ch

toLowerCase(s) == [k \in 1..Len(s) |-> LowerCaseLetter(s[k])]

\* String.prototype.includes
includes(s, q) ==
    \E k \in 0..(Len(s) - Len(q)) : SubSeq(s, k + 1, k + Len(q)) = q

\* Mutant: the search text has to be in the title and in the description.
matchesSearchBoth(incident, q) ==
    /\ includes(toLowerCase(incident.title), toLowerCase(q))
    /\ includes(toLowerCase(incident.description), toLowerCase(q))

matchesSearch(incident, q) ==
    \/ includes(toLowerCase(incident.title), toLowerCase(q))
    \/ includes(toLowerCase(incident.description), toLowerCase(q))

matchesStatus(incident, sf) == sf = "all" \/ incident.status = sf

matchesPriority(incident, pf) == pf = "all" \/ incident.priority = pf

\* incidents?.filter((incident) => matchesSearch && matchesStatus && matchesPriority)
Filter(data, q, sf, pf) ==
    IF ~data.loaded THEN NotLoaded
    ELSE Loaded(SelectSeq(data.rows,
                          LAMBDA incident :
                              /\ matchesSearch(incident, q)
                              /\ matchesStatus(incident, sf)
                              /\ matchesPriority(incident, pf)))

(***************************************************************************)
(* Analytics: the values the component derives from its query data.        *)
(***************************************************************************)
\* Mutant: the in-progress count looks for the status "in-progress".
statsHyphenated(data) ==
    [ total      |-> Len(data.rows),
      open       |-> Len(SelectSeq(data.rows, LAMBDA i : i.status = "open")),
      inProgress |-> Len(SelectSeq(data.rows, LAMBDA i : i.status = "in-progress")),
      resolved   |-> Len(SelectSeq(data.rows, LAMBDA i : i.status = "resolved")),
      closed     |-> Len(SelectSeq(data.rows, LAMBDA i : i.status = "closed")),
      critical   |-> Len(SelectSeq(data.rows, LAMBDA i : i.priority = "critical")),
      high       |-> Len(SelectSeq(data.rows, LAMBDA i : i.priority = "high")) ]

\* incidents?.length || 0 and incidents?.filter(...).length || 0
stats(data) ==
    [ total      |-> Len(data.rows),
      open       |-> Len(SelectSeq(data.rows, LAMBDA i : i.status = "open")),
      inProgress |-> Len(SelectSeq(data.rows, LAMBDA i : i.status = "in_progress")),
      resolved   |-> Len(SelectSeq(data.rows, LAMBDA i : i.status = "resolved")),
      closed     |-> Len(SelectSeq(data.rows, LAMBDA i : i.status = "closed")),
      critical   |-> Len(SelectSeq(data.rows, LAMBDA i : i.priority = "critical")),
      high       |-> Len(SelectSeq(data.rows, LAMBDA i : i.priority = "high")) ]

\* A JavaScript object used as a map: its own keys in the order they were
\* added, and the value of each.
EmptyObject == [keys |-> <<>>, values |-> <<>>]

KeyPlace(obj, key) ==
    IF \E k \in DOMAIN obj.keys : obj.keys[k] = key
    THEN CHOOSE k \in DOMAIN obj.keys : obj.keys[k] = key
    ELSE 0

\* acc[label] = (acc[label] || 0) + 1
Increment(obj, label) ==
    IF KeyPlace(obj, label) = 0
    THEN [keys |-> Append(obj.keys, label), values |-> Append(obj.values, 1)]
    ELSE [obj EXCEPT !.values[KeyPlace(obj, label)] = @ + 1]

\* labels.reduce((acc, label) => { acc[label] = ...; return acc }, {})
RECURSIVE CountLabels(_)
CountLabels(labels) ==
    IF labels = <<>> THEN EmptyObject
    ELSE Increment(CountLabels(SubSeq(labels, 1, Len(labels) - 1)),
                   labels[Len(labels)])

\* categoryStats: undefined while the data is, and then read as {}
categoryStats(data) ==
    IF data.loaded
    THEN CountLabels([k \in DOMAIN data.rows |-> data.rows[k].category])
    ELSE EmptyObject

\* locationStats: likewise
locationStats(data) ==
    IF data.loaded
    THEN CountLabels([k \in DOMAIN data.rows |-> data.rows[k].location])
    ELSE EmptyObject

DigitValue(ch) ==
    CASE ch = "0" -> 0 [] ch = "1" -> 1 [] ch = "2" -> 2 [] ch = "3" -> 3
      [] ch = "4" -> 4 [] ch = "5" -> 5 [] ch = "6" -> 6 [] ch = "7" -> 7
      [] ch = "8" -> 8 [] ch = "9" -> 9 [] OTHER -> -1

RECURSIVE DecimalValue(_)
DecimalValue(s) ==
    IF s = <<>> THEN 0
    ELSE 10 * DecimalValue(SubSeq(s, 1, Len(s) - 1)) + DigitValue(s[Len(s)])

\* The array index a property key of a location stands for, -1 if none: a
\* key is an array index when it is the decimal numeral of an integer
\* below 2^32 - 1 (every numeral of up to nine digits is).
LocationIndex(key) ==
    IF /\ key # <<>>
       /\ Len(key) <= 9
       /\ \A k \in DOMAIN key : DigitValue(key[k]) >= 0
       /\ (Len(key) = 1 \/ key[1] # "0")
    THEN DecimalValue(key)
    ELSE -1

\* The category is "" or a value of the form's Select: never a numeral.
CategoryIndex(key) == -1

\* Object.entries(obj): the keys that are array indices in ascending
\* numeric order, then the other keys in the order they were added.
\* index[k] is the array index the k-th key stands for, -1 if none.
ObjectEntries(obj, index) ==
    LET n == Len(obj.keys)
        Before(a, b) ==
            IF index[a] >= 0
            THEN index[b] < 0 \/ index[a] < index[b]
            ELSE index[b] < 0 /\ a < b
        at == [r \in 1..n |->
                  CHOOSE k \in 1..n : Cardinality({j \in 1..n : Before(j, k)}) = r - 1]
    IN [r \in 1..n |-> <<obj.keys[at[r]], obj.values[at[r]]>>]

\* .sort(([, a], [, b]) => b - a): Array.prototype.sort is stable.
SortByCountDescending(entries) ==
    LET n == Len(entries)
        Before(a, b) ==
            \/ entries[a][2] > entries[b][2]
            \/ entries[a][2] = entries[b][2] /\ a < b
        at == [r \in 1..n |->
                  CHOOSE k \in 1..n : Cardinality({j \in 1..n : Before(j, k)}) = r - 1]
    IN [r \in 1..n |-> entries[at[r]]]

\* .slice(0, n)
Slice(s, n) == SubSeq(s, 1, IF Len(s) < n THEN Len(s) ELSE n)

TopShown == 5

topCategories(data) ==
    LET obj == categoryStats(data)
        index == [k \in DOMAIN obj.keys |-> CategoryIndex(obj.keys[k])]
    IN Slice(SortByCountDescending(ObjectEntries(obj, index)), TopShown)

topLocations(data) ==
    LET obj == locationStats(data)
        index == [k \in DOMAIN obj.keys |-> LocationIndex(obj.keys[k])]
    IN Slice(SortByCountDescending(ObjectEntries(obj, index)), TopShown)

\* A JavaScript number: a ratio of integers, NaN or Infinity.
NaN == [kind |-> "NaN", num |-> 0, den |-> 0]
Infinity == [kind |-> "Infinity", num |-> 0, den |-> 0]
Ratio(a, b) == [kind |-> "number", num |-> a, den |-> b]

\* a / b
Divide(a, b) ==
    IF b # 0 THEN Ratio(a, b)
    ELSE IF a = 0 THEN NaN ELSE Infinity

\* `${(count / stats.total) * 100}%`
BarWidth(count, total) ==
    LET x == Divide(count, total)
    IN [ number |-> IF x.kind = "number" THEN Ratio(x.num * 100, x.den) ELSE x,
         unit |-> "%" ]

\* What Analytics renders from the data of its query.
AnalyticsView(data) ==
    [ data          |-> data,
      stats         |-> stats(data),
      categoryStats |-> categoryStats(data),
      locationStats |-> locationStats(data),
      topCategories |-> topCategories(data),
      topLocations  |-> topLocations(data),
      criticalWidth |-> BarWidth(stats(data).critical, stats(data).total),
      highWidth     |-> BarWidth(stats(data).high, stats(data).total) ]

InitList ==
    /\ listData = [c \in Clients |-> NotLoaded]
    /\ searchQuery = [c \in Clients |-> <<>>]
    /\ statusFilter = [c \in Clients |-> "all"]
    /\ priorityFilter = [c \in Clients |-> "all"]
    /\ filteredIncidents = [c \in Clients |-> NotLoaded]

Init ==
    /\ incidents = <<>>
    /\ incident_updates = <<>>
    /\ objects = {}
    /\ now = 1
    /\ session = [c \in Clients |-> NoUser]
    /\ pc = [c \in Clients |-> "idle"]
    /\ mutation = [c \in Clients |-> IdleMutation]
    /\ user = [c \in Clients |-> NoUser]
    /\ arg = [c \in Clients |-> NoArg]
    /\ evidenceUrls = [c \in Clients |-> <<>>]
    /\ showForm = [c \in Clients |-> FALSE]
    /\ selected = [c \in Clients |-> NoIncident]
    /\ newUpdate = [c \in Clients |-> <<>>]
    /\ statusUpdate = [c \in Clients |-> ""]
    /\ InitList
    /\ analytics = [c \in Clients |-> AnalyticsView(NotLoaded)]
    /\ incidentData = [c \in Clients |-> NotLoaded]

(***************************************************************************)
(* Environment: the clock, the backend's availability, the auth session.   *)
(***************************************************************************)
Tick ==
    /\ now < MaxClock
    /\ now' = now + 1
    /\ UNCHANGED <<views, store, session, pc, mutation, locals, showForm, details>>

SignIn(c, u) ==
    /\ session[c] = NoUser
    /\ session' = [session EXCEPT ![c] = u]
    /\ UNCHANGED <<views, store, now, pc, mutation, locals, showForm, details>>

\* handleSignOut: supabase.auth.signOut()
SignOut(c) ==
    /\ session[c] # NoUser
    /\ session' = [session EXCEPT ![c] = NoUser]
    /\ UNCHANGED <<views, store, now, pc, mutation, locals, showForm, details>>

\* Every request to the backend either is answered (ok) or fails (network,
\* service) and returns { error }.

\* const { data: { user } } = await supabase.auth.getUser()
GetUser(c, ok) == IF ok THEN session[c] ELSE NoUser

InFlight(labels) == Cardinality({c \in Clients : pc[c] \in labels})

\* The mutation of client c settles: onSuccess or onError, locals dropped.
Settle(c, op, status, error) ==
    /\ pc' = [pc EXCEPT ![c] = "idle"]
    /\ mutation' = [mutation EXCEPT ![c] = [op |-> op, status |-> status, error |-> error]]
    /\ user' = [user EXCEPT ![c] = NoUser]
    /\ arg' = [arg EXCEPT ![c] = NoArg]
    /\ evidenceUrls' = [evidenceUrls EXCEPT ![c] = <<>>]

Pending(op) == [op |-> op, status |-> "pending", error |-> "none"]

(***************************************************************************)
(* Dashboard / IncidentForm: createIncident.  The dialogs are modal: one   *)
(* is open at a time, and it stays open while its mutation is in flight.   *)
(***************************************************************************)
\* "Report Incident": setShowForm(true) mounts IncidentForm
OpenForm(c) ==
    /\ pc[c] = "idle"
    /\ ~showForm[c]
    /\ selected[c] = NoIncident
    /\ showForm' = [showForm EXCEPT ![c] = TRUE]
    /\ mutation' = [mutation EXCEPT ![c] = IdleMutation]
    /\ UNCHANGED <<views, store, env, pc, locals, details>>

\* Cancel: onOpenChange(false) unmounts IncidentForm
CloseForm(c) ==
    /\ pc[c] = "idle"
    /\ showForm[c]
    /\ showForm' = [showForm EXCEPT ![c] = FALSE]
    /\ mutation' = [mutation EXCEPT ![c] = IdleMutation]
    /\ UNCHANGED <<views, store, env, pc, locals, details>>

FormInputs ==
    [ kind : {"form"}, title : FieldTexts, description : FieldTexts,
      priority : Priorities, category : CategoryValues, location : FieldTexts,
      files : FileSelections ]

\* The inputs marked `required` block the submit event while empty.
FormValid(f) ==
    /\ f.title # <<>>
    /\ f.location # <<>>
    /\ f.description # <<>>

CreateLabels == {"ci_getUser", "ci_upload", "ci_insert"}

\* onSubmit: createIncident.mutate()
Submit(c, f) ==
    /\ pc[c] = "idle"
    /\ showForm[c]
    /\ FormValid(f)
    /\ Len(incidents) + InFlight(CreateLabels) < MaxIncidents
    /\ pc' = [pc EXCEPT ![c] = "ci_getUser"]
    /\ mutation' = [mutation EXCEPT ![c] = Pending("createIncident")]
    /\ arg' = [arg EXCEPT ![c] = f]
    /\ UNCHANGED <<views, store, env, user, evidenceUrls, showForm, details>>

\* if (!user) throw new Error("Not authenticated")
CreateGetUser(c) ==
    /\ pc[c] = "ci_getUser"
    /\ \E ok \in BOOLEAN :
         IF GetUser(c, ok) = NoUser
         THEN Settle(c, "createIncident", "error", "Not authenticated")
         ELSE /\ user' = [user EXCEPT ![c] = GetUser(c, ok)]
              /\ pc' = [pc EXCEPT ![c] =
                          IF arg[c].files = <<>> THEN "ci_insert" ELSE "ci_upload"]
              /\ UNCHANGED <<mutation, arg, evidenceUrls>>
    /\ UNCHANGED <<views, store, env, showForm, details>>

\* `${user.id}/${Date.now()}.${fileExt}`
FileName(uid, t, ext) == [uid |-> uid, time |-> t, ext |-> ext]

\* getPublicUrl(fileName)
PublicUrl(fileName) == [bucket |-> "incident-evidence", path |-> fileName]

\* Mutant: upload(fileName, file, { upsert: true }) replaces the object that
\* is at the path.
CreateUploadUpsert(c) ==
    /\ pc[c] = "ci_upload"
    /\ \E ok \in BOOLEAN :
       LET file == arg[c].files[Len(evidenceUrls[c]) + 1]
           fileName == FileName(user[c], now, file)
       IN IF ok /\ UploadPolicy(session[c])
          THEN /\ objects' = objects \cup {fileName}
               /\ evidenceUrls' = [evidenceUrls EXCEPT ![c] = Append(@, PublicUrl(fileName))]
               /\ pc' = [pc EXCEPT ![c] =
                           IF Len(evidenceUrls[c]) + 1 = Len(arg[c].files)
                           THEN "ci_insert" ELSE "ci_upload"]
               /\ UNCHANGED <<mutation, user, arg>>
          ELSE /\ Settle(c, "createIncident", "error", "upload")
               /\ UNCHANGED objects
    /\ UNCHANGED <<views, incidents, incident_updates, env, showForm, details>>

\* One turn of the loop over files: upload (no upsert: a path that is taken
\* is answered with an error, which is thrown), then push the public URL.
CreateUpload(c) ==
    /\ pc[c] = "ci_upload"
    /\ \E ok \in BOOLEAN :
       LET file == arg[c].files[Len(evidenceUrls[c]) + 1]
           fileName == FileName(user[c], now, file)
       IN IF ok /\ UploadPolicy(session[c]) /\ fileName \notin objects
          THEN /\ objects' = objects \cup {fileName}
               /\ evidenceUrls' = [evidenceUrls EXCEPT ![c] = Append(@, PublicUrl(fileName))]
               /\ pc' = [pc EXCEPT ![c] =
                           IF Len(evidenceUrls[c]) + 1 = Len(arg[c].files)
                           THEN "ci_insert" ELSE "ci_upload"]
               /\ UNCHANGED <<mutation, user, arg>>
          ELSE /\ Settle(c, "createIncident", "error", "upload")
               /\ UNCHANGED objects
    /\ UNCHANGED <<views, incidents, incident_updates, env, showForm, details>>

\* Mutant: the insert passes a status along with the form fields.
InsertPayloadWithStatus(f, uid, urls) ==
    [ title |-> f.title, description |-> f.description, priority |-> f.priority,
      category |-> f.category, location |-> f.location, reporter_id |-> uid,
      evidence_urls |-> urls, status |-> "in_progress" ]

\* The object handed to .insert(): no status, no resolved_at.
InsertPayload(f, uid, urls) ==
    [ title |-> f.title, description |-> f.description, priority |-> f.priority,
      category |-> f.category, location |-> f.location, reporter_id |-> uid,
      evidence_urls |-> urls ]

\* INSERT INTO public.incidents as account uid
InsertIncidentOk(row, uid, ok) ==
    /\ ok
    /\ IncidentConstraints(row)
    /\ IncidentInsertPolicy(uid, row)

\* Mutant: the insert's error is not read and the call reports success.
CreateInsertUnchecked(c) ==
    /\ pc[c] = "ci_insert"
    /\ \E ok \in BOOLEAN :
       LET row == IncidentRow(InsertPayload(arg[c], user[c], evidenceUrls[c]), now)
       IN /\ incidents' = IF InsertIncidentOk(row, session[c], ok)
                          THEN Append(incidents, row) ELSE incidents
          /\ Settle(c, "createIncident", "success", "none")
          /\ showForm' = [showForm EXCEPT ![c] = FALSE]
    /\ UNCHANGED <<views, incident_updates, objects, env, details>>

\* insert({...}).select().single(); if (error) throw error;
\* onSuccess: onOpenChange(false); resetForm()
CreateInsert(c) ==
    /\ pc[c] = "ci_insert"
    /\ \E ok \in BOOLEAN :
       LET row == IncidentRow(InsertPayload(arg[c], user[c], evidenceUrls[c]), now)
       IN IF InsertIncidentOk(row, session[c], ok)
          THEN /\ incidents' = Append(incidents, row)
               /\ Settle(c, "createIncident", "success", "none")
               /\ showForm' = [showForm EXCEPT ![c] = FALSE]
          ELSE /\ Settle(c, "createIncident", "error", "insert")
               /\ UNCHANGED <<incidents, showForm>>
    /\ UNCHANGED <<views, incident_updates, objects, env, details>>

(***************************************************************************)
(* IncidentList / IncidentDetails: the dialog of one incident.             *)
(***************************************************************************)
\* The answer to from("incidents").select("*").eq("id", i).single() as
\* account uid: the row, or an error when no row is visible.
SelectIncident(uid, i) ==
    IF i \in VisibleIncidents(uid) THEN Loaded(<<SelectedRow(i)>>) ELSE NotLoaded

\* A card is clicked: IncidentDetails mounts with fresh state. It renders
\* (if (!incident) return null) once the incident query has answered.
OpenDetails(c, i) ==
    /\ pc[c] = "idle"
    /\ ~showForm[c]
    /\ selected[c] = NoIncident
    /\ i \in 1..Len(incidents)
    /\ session[c] # NoUser
    /\ selected' = [selected EXCEPT ![c] = i]
    /\ mutation' = [mutation EXCEPT ![c] = IdleMutation]
    /\ UNCHANGED <<views, store, env, pc, locals, showForm, newUpdate, statusUpdate>>

\* onOpenChange(false): setSelectedIncidentId(null) unmounts the dialog, and
\* the data of its query goes with it.
CloseDetails(c) ==
    /\ pc[c] = "idle"
    /\ selected[c] # NoIncident
    /\ selected' = [selected EXCEPT ![c] = NoIncident]
    /\ newUpdate' = [newUpdate EXCEPT ![c] = <<>>]
    /\ statusUpdate' = [statusUpdate EXCEPT ![c] = ""]
    /\ incidentData' = [incidentData EXCEPT ![c] = NotLoaded]
    /\ mutation' = [mutation EXCEPT ![c] = IdleMutation]
    /\ UNCHANGED <<lists, store, env, pc, locals, showForm>>

\* queryFn of the incident query, run when the dialog mounts and again on
\* invalidateQueries or window focus: a thrown error leaves the data as it
\* is.
FetchIncident(c) ==
    /\ selected[c] # NoIncident
    /\ \E ok \in BOOLEAN :
       LET answer == SelectIncident(session[c], selected[c])
       IN incidentData' = [incidentData EXCEPT ![c] =
                          IF ok /\ answer.loaded THEN answer ELSE @]
    /\ UNCHANGED <<lists, store, env, pc, mutation, locals, showForm, details>>

\* if (!incident) return null: the dialog renders once the query has data.
Rendered(c) == selected[c] # NoIncident /\ incidentData[c].loaded

\* <Select value={statusUpdate || incident.status}>
SelectValue(c) ==
    IF statusUpdate[c] # "" THEN statusUpdate[c] ELSE incidentData[c].rows[1].status

UpdateLabels == {"us_update", "us_getUser", "us_insert", "au_getUser", "au_insert"}

(***************************************************************************)
(* updateStatus.                                                           *)
(***************************************************************************)
\* onValueChange: setStatusUpdate(typedValue); updateStatus.mutate(typedValue)
SelectStatus(c, s) ==
    /\ pc[c] = "idle"
    /\ selected[c] # NoIncident
    /\ Len(incident_updates) + InFlight(UpdateLabels) < MaxUpdates
    /\ statusUpdate' = [statusUpdate EXCEPT ![c] = s]
    /\ pc' = [pc EXCEPT ![c] = "us_update"]
    /\ mutation' = [mutation EXCEPT ![c] = Pending("updateStatus")]
    /\ arg' = [arg EXCEPT ![c] = [kind |-> "status", status |-> s, incidentId |-> selected[c]]]
    /\ UNCHANGED <<views, store, env, user, evidenceUrls, showForm, selected, newUpdate>>

\* The first status picked in a dialog since it was opened.
SelectStatusOnce(c, s) ==
    /\ statusUpdate[c] = ""
    /\ SelectStatus(c, s)

\* Mutant: resolved_at is stamped on every status change.
StatusPatchAlwaysStamped(status, t) == [status |-> status, resolved_at |-> t]

\* { status, resolved_at: status === "resolved" ? new Date().toISOString() : null }
StatusPatch(status, t) ==
    [ status |-> status,
      resolved_at |-> IF status = "resolved" THEN t ELSE NullTime ]

\* Mutant: the UPDATE writes resolved_at only when the patch has a time.
UpdateIncidentKeepingStamp(rows, incidentId, patch, uid, t) ==
    [ i \in DOMAIN rows |->
        IF i = incidentId /\ IncidentUpdatePolicy(uid, rows[i])
        THEN UpdatedAtTrigger(
                 [rows[i] EXCEPT !.status = patch.status,
                                 !.resolved_at = IF patch.resolved_at = NullTime
                                                 THEN @ ELSE patch.resolved_at], t)
        ELSE rows[i] ]

\* UPDATE public.incidents SET ... WHERE id = incidentId, as account uid: the
\* rows the policy hides are not updated, and that is no error.
UpdateIncident(rows, incidentId, patch, uid, t) ==
    [ i \in DOMAIN rows |->
        IF i = incidentId /\ IncidentUpdatePolicy(uid, rows[i])
        THEN UpdatedAtTrigger(
                 [rows[i] EXCEPT !.status = patch.status,
                                 !.resolved_at = patch.resolved_at], t)
        ELSE rows[i] ]

\* await supabase.from("incidents").update(...).eq("id", incidentId);
\* if (error) throw error
UpdateStatusWrite(c) ==
    /\ pc[c] = "us_update"
    /\ \E ok \in BOOLEAN :
         IF ok
         THEN /\ incidents' = UpdateIncident(incidents, arg[c].incidentId,
                                   StatusPatch(arg[c].status, now), session[c], now)
              /\ pc' = [pc EXCEPT ![c] = "us_getUser"]
              /\ UNCHANGED <<mutation, locals>>
         ELSE /\ Settle(c, "updateStatus", "error", "update")
              /\ UNCHANGED incidents
    /\ UNCHANGED <<views, incident_updates, objects, env, showForm, details>>

UpdateStatusGetUser(c) ==
    /\ pc[c] = "us_getUser"
    /\ \E ok \in BOOLEAN : user' = [user EXCEPT ![c] = GetUser(c, ok)]
    /\ pc' = [pc EXCEPT ![c] = "us_insert"]
    /\ UNCHANGED <<views, store, env, mutation, arg, evidenceUrls, showForm, details>>

\* INSERT INTO public.incident_updates as account uid
InsertUpdateOk(row, uid, ok) ==
    /\ ok
    /\ UpdateConstraints(row)
    /\ UpdateInsertPolicy(uid, row)

\* Mutant: the status change keeps one entry per incident and overwrites it.
UpdateStatusInsertReplacing(c) ==
    /\ pc[c] = "us_insert"
    /\ \E ok \in BOOLEAN :
       LET row == UpdateRow(arg[c].incidentId, user[c], "status_change",
                            StatusChangeContent(arg[c].status), now)
           old == {k \in 1..Len(incident_updates) :
                     /\ incident_updates[k].incident_id = row.incident_id
                     /\ incident_updates[k].update_type = "status_change"}
       IN incident_updates' =
            IF ~InsertUpdateOk(row, session[c], ok) THEN incident_updates
            ELSE IF old = {} THEN Append(incident_updates, row)
            ELSE [k \in 1..Len(incident_updates) |->
                    IF k \in old THEN row ELSE incident_updates[k]]
    /\ Settle(c, "updateStatus", "success", "none")
    /\ UNCHANGED <<views, incidents, objects, env, showForm, details>>

\* await supabase.from("incident_updates").insert({...}): the answer's
\* error is not read, and the mutationFn returns.
UpdateStatusInsert(c) ==
    /\ pc[c] = "us_insert"
    /\ \E ok \in BOOLEAN :
       LET row == UpdateRow(arg[c].incidentId, user[c], "status_change",
                            StatusChangeContent(arg[c].status), now)
       IN incident_updates' = IF InsertUpdateOk(row, session[c], ok)
                              THEN Append(incident_updates, row)
                              ELSE incident_updates
    /\ Settle(c, "updateStatus", "success", "none")
    /\ UNCHANGED <<views, incidents, objects, env, showForm, details>>

(***************************************************************************)
(* addUpdate.                                                              *)
(***************************************************************************)
\* Textarea onChange: setNewUpdate(e.target.value)
TypeUpdate(c, t) ==
    /\ pc[c] = "idle"
    /\ selected[c] # NoIncident
    /\ t # newUpdate[c]
    /\ newUpdate' = [newUpdate EXCEPT ![c] = t]
    /\ UNCHANGED <<views, store, env, pc, mutation, locals, showForm, selected, statusUpdate>>

\* Mutant: the button tests the text without trimming it.
AddUpdateDisabledUntrimmed(c) ==
    \/ newUpdate[c] = <<>>
    \/ mutation[c] = Pending("addUpdate")

\* disabled={!newUpdate.trim() || addUpdate.isPending}
AddUpdateDisabled(c) ==
    \/ Trim(newUpdate[c]) = <<>>
    \/ mutation[c] = Pending("addUpdate")

\* onClick: addUpdate.mutate()
AddUpdateClick(c) ==
    /\ pc[c] = "idle"
    /\ selected[c] # NoIncident
    /\ ~AddUpdateDisabled(c)
    /\ Len(incident_updates) + InFlight(UpdateLabels) < MaxUpdates
    /\ pc' = [pc EXCEPT ![c] = "au_getUser"]
    /\ mutation' = [mutation EXCEPT ![c] = Pending("addUpdate")]
    /\ arg' = [arg EXCEPT ![c] =
                  [kind |-> "comment", content |-> newUpdate[c], incidentId |-> selected[c]]]
    /\ UNCHANGED <<views, store, env, user, evidenceUrls, showForm, details>>

AddUpdateGetUser(c) ==
    /\ pc[c] = "au_getUser"
    /\ \E ok \in BOOLEAN : user' = [user EXCEPT ![c] = GetUser(c, ok)]
    /\ pc' = [pc EXCEPT ![c] = "au_insert"]
    /\ UNCHANGED <<views, store, env, mutation, arg, evidenceUrls, showForm, details>>

\* Mutant: adding a comment also touches the parent incident, whose
\* updated_at trigger then fires.
AddUpdateInsertTouchingParent(c) ==
    /\ pc[c] = "au_insert"
    /\ \E ok \in BOOLEAN :
       LET row == UpdateRow(arg[c].incidentId, user[c], "comment", arg[c].content, now)
       IN IF InsertUpdateOk(row, session[c], ok)
          THEN /\ incident_updates' = Append(incident_updates, row)
               /\ incidents' = [incidents EXCEPT ![arg[c].incidentId] = UpdatedAtTrigger(@, now)]
               /\ Settle(c, "addUpdate", "success", "none")
               /\ newUpdate' = [newUpdate EXCEPT ![c] = <<>>]
          ELSE /\ Settle(c, "addUpdate", "error", "insert")
               /\ UNCHANGED <<incidents, incident_updates, newUpdate>>
    /\ UNCHANGED <<views, objects, env, showForm, selected, statusUpdate>>

\* insert({...}); if (error) throw error; onSuccess: setNewUpdate("")
AddUpdateInsert(c) ==
    /\ pc[c] = "au_insert"
    /\ \E ok \in BOOLEAN :
       LET row == UpdateRow(arg[c].incidentId, user[c], "comment", arg[c].content, now)
       IN IF InsertUpdateOk(row, session[c], ok)
          THEN /\ incident_updates' = Append(incident_updates, row)
               /\ Settle(c, "addUpdate", "success", "none")
               /\ newUpdate' = [newUpdate EXCEPT ![c] = <<>>]
          ELSE /\ Settle(c, "addUpdate", "error", "insert")
               /\ UNCHANGED <<incident_updates, newUpdate>>
    /\ UNCHANGED <<views, incidents, objects, env, showForm, selected, statusUpdate>>

(***************************************************************************)
(* IncidentList: the query and the three filters.  Every handler ends in   *)
(* a render, which recomputes filteredIncidents.  The reporter and         *)
(* assignee profiles the queryFn adds to each row are left out.            *)
(***************************************************************************)
\* queryFn of ["incidents"]; if (error) throw error leaves the data as it is
FetchIncidents(c) ==
    /\ \E ok \in BOOLEAN :
         IF ok
         THEN \E rows \in SelectIncidents(session[c]) :
                 listData' = [listData EXCEPT ![c] = Loaded(rows)]
         ELSE UNCHANGED listData
    /\ filteredIncidents' =
           [filteredIncidents EXCEPT ![c] =
               Filter(listData'[c], searchQuery[c], statusFilter[c], priorityFilter[c])]
    /\ UNCHANGED <<store, env, pc, mutation, locals, showForm, details, filters, analytics, incidentData>>

\* onChange: setSearchQuery(e.target.value)
SetSearchQuery(c, q) ==
    /\ q # searchQuery[c]
    /\ searchQuery' = [searchQuery EXCEPT ![c] = q]
    /\ filteredIncidents' =
           [filteredIncidents EXCEPT ![c] =
               Filter(listData[c], q, statusFilter[c], priorityFilter[c])]
    /\ UNCHANGED <<store, env, pc, mutation, locals, showForm, details, listData,
                   statusFilter, priorityFilter, analytics, incidentData>>

\* onValueChange={setStatusFilter}
SetStatusFilter(c, sf) ==
    /\ sf # statusFilter[c]
    /\ statusFilter' = [statusFilter EXCEPT ![c] = sf]
    /\ filteredIncidents' =
           [filteredIncidents EXCEPT ![c] =
               Filter(listData[c], searchQuery[c], sf, priorityFilter[c])]
    /\ UNCHANGED <<store, env, pc, mutation, locals, showForm, details, listData,
                   searchQuery, priorityFilter, analytics, incidentData>>

\* onValueChange={setPriorityFilter}
SetPriorityFilter(c, pf) ==
    /\ pf # priorityFilter[c]
    /\ priorityFilter' = [priorityFilter EXCEPT ![c] = pf]
    /\ filteredIncidents' =
           [filteredIncidents EXCEPT ![c] =
               Filter(listData[c], searchQuery[c], statusFilter[c], pf)]
    /\ UNCHANGED <<store, env, pc, mutation, locals, showForm, details, listData,
                   searchQuery, statusFilter, analytics, incidentData>>

(***************************************************************************)
(* Analytics: its query, and the render that follows the answer.           *)
(***************************************************************************)
\* queryFn of Analytics; if (error) throw error leaves the data as it is
FetchAnalytics(c) ==
    /\ \E ok \in BOOLEAN :
         IF ok
         THEN \E rows \in SelectIncidents(session[c]) :
                 analytics' = [analytics EXCEPT ![c] = AnalyticsView(Loaded(rows))]
         ELSE UNCHANGED analytics
    /\ UNCHANGED <<store, env, pc, mutation, locals, showForm, details, listData,
                   filters, filteredIncidents, incidentData>>

(***************************************************************************)
(* Specifications.  The steps of one client, over the accounts that sign   *)
(* in, the forms submitted, the statuses selected and the texts typed.     *)
(***************************************************************************)
Auth(c, accounts) ==
    \/ \E u \in accounts : SignIn(c, u)
    \/ SignOut(c)

FormDialog(c) ==
    \/ OpenForm(c)
    \/ CloseForm(c)

DetailsDialog(c) ==
    \/ \E i \in 1..MaxIncidents : OpenDetails(c, i)
    \/ CloseDetails(c)

CreateIncident(c, forms) ==
    \/ \E f \in forms : Submit(c, f)
    \/ CreateGetUser(c)
    \/ CreateInsert(c)

TransitionStatus(c, statuses) ==
    \/ \E s \in statuses : SelectStatus(c, s)
    \/ UpdateStatusWrite(c)
    \/ UpdateStatusGetUser(c)
    \/ UpdateStatusInsert(c)

AddComment(c, texts) ==
    \/ \E t \in texts : TypeUpdate(c, t)
    \/ AddUpdateClick(c)
    \/ AddUpdateGetUser(c)
    \/ AddUpdateInsert(c)

\* A report with every field filled and no evidence file.
PlainForm ==
    [ kind |-> "form", title |-> <<"a">>, description |-> <<"a">>, priority |-> "medium",
      category |-> "theft", location |-> <<"a">>, files |-> <<>> ]

\* Spec: one account reports incidents, moves them through every status
\* and comments on them.
Next ==
    \/ Auth("c1", {"u1"})
    \/ FormDialog("c1")
    \/ DetailsDialog("c1")
    \/ CreateIncident("c1", {PlainForm})
    \/ TransitionStatus("c1", Statuses)
    \/ AddComment("c1", {<<"a">>})

Spec == Init /\ [][Next]_vars

\* SpecAccounts: the same operations with two accounts taking turns in the
\* browser session, resolving and reopening.
NextAccounts ==
    \/ Auth("c1", Users)
    \/ FormDialog("c1")
    \/ DetailsDialog("c1")
    \/ CreateIncident("c1", {PlainForm})
    \/ TransitionStatus("c1", {"resolved", "open"})
    \/ AddComment("c1", {<<"a">>})

SpecAccounts == Init /\ [][NextAccounts]_vars

\* SpecCreate: the report form alone, with every form input and evidence
\* files.
NextCreate ==
    \/ Auth("c1", Users)
    \/ FormDialog("c1")
    \/ CreateIncident("c1", FormInputs)
    \/ CreateUpload("c1")

SpecCreate == Init /\ [][NextCreate]_vars

\* SpecEvidence: one account reports incidents with one or two evidence
\* files, of the same extension or not, while the clock advances.
EvidenceSelections == {<<"png">>, <<"png", "png">>, <<"png", "jpg">>}

EvidenceForms == {[PlainForm EXCEPT !.files = fs] : fs \in EvidenceSelections}

NextEvidence ==
    \/ Tick
    \/ Auth("c1", {"u1"})
    \/ FormDialog("c1")
    \/ CreateIncident("c1", EvidenceForms)
    \/ CreateUpload("c1")

SpecEvidence == Init /\ [][NextEvidence]_vars

\* SpecDetails: the details dialog of an incident that account u1 reported,
\* with both accounts, every status and every text.
InitDetails ==
    /\ incidents = << IncidentRow(InsertPayload(PlainForm, "u1", <<>>), 1) >>
    /\ incident_updates = <<>>
    /\ objects = {}
    /\ now = 1
    /\ session = [c \in Clients |-> NoUser]
    /\ pc = [c \in Clients |-> "idle"]
    /\ mutation = [c \in Clients |-> IdleMutation]
    /\ user = [c \in Clients |-> NoUser]
    /\ arg = [c \in Clients |-> NoArg]
    /\ evidenceUrls = [c \in Clients |-> <<>>]
    /\ showForm = [c \in Clients |-> FALSE]
    /\ selected = [c \in Clients |-> NoIncident]
    /\ newUpdate = [c \in Clients |-> <<>>]
    /\ statusUpdate = [c \in Clients |-> ""]
    /\ InitList
    /\ analytics = [c \in Clients |-> AnalyticsView(NotLoaded)]
    /\ incidentData = [c \in Clients |-> NotLoaded]

NextDetails ==
    \/ Auth("c1", Users)
    \/ DetailsDialog("c1")
    \/ TransitionStatus("c1", Statuses)
    \/ AddComment("c1", Texts)

SpecDetails == InitDetails /\ [][NextDetails]_vars

\* SpecClock: the same dialog while the clock advances, so that the
\* timestamps the store hands out differ; both accounts resolve, reopen
\* and comment.
NextClock ==
    \/ Tick
    \/ Auth("c1", Users)
    \/ DetailsDialog("c1")
    \/ TransitionStatus("c1", {"resolved", "open"})
    \/ AddComment("c1", {<<"a">>})

SpecClock == InitDetails /\ [][NextClock]_vars

\* The row of a report f that account uid filed at time t and left in
\* status s.
StoredIncident(f, uid, s, t) ==
    UpdateIncident(<< IncidentRow(InsertPayload(f, uid, <<>>), t) >>, 1,
                   StatusPatch(s, t), uid, t)[1]

\* The tables of up to MaxListed such reports, in the order they were filed.
Stores(forms, statuses, times) ==
    {rows \in UNION {[1..n -> {StoredIncident(f, "u1", s, t) :
                                  f \in forms, s \in statuses, t \in times}] :
                     n \in 0..MaxListed} :
        \A a, b \in DOMAIN rows : a < b => rows[a].created_at <= rows[b].created_at}

\* The status_change entry of every incident that is not open.
StoredUpdates(rows) ==
    SelectSeq([i \in DOMAIN rows |->
                  UpdateRow(i, rows[i].reporter_id, "status_change",
                            StatusChangeContent(rows[i].status), rows[i].updated_at)],
              LAMBDA u : u.content # StatusChangeContent("open"))

InitStored(forms, statuses, times) ==
    /\ incidents \in Stores(forms, statuses, times)
    /\ incident_updates = StoredUpdates(incidents)
    /\ objects = {}
    /\ now = MaxClock
    /\ session = [c \in Clients |-> NoUser]
    /\ pc = [c \in Clients |-> "idle"]
    /\ mutation = [c \in Clients |-> IdleMutation]
    /\ user = [c \in Clients |-> NoUser]
    /\ arg = [c \in Clients |-> NoArg]
    /\ evidenceUrls = [c \in Clients |-> <<>>]
    /\ showForm = [c \in Clients |-> FALSE]
    /\ selected = [c \in Clients |-> NoIncident]
    /\ newUpdate = [c \in Clients |-> <<>>]
    /\ statusUpdate = [c \in Clients |-> ""]
    /\ InitList
    /\ analytics = [c \in Clients |-> AnalyticsView(NotLoaded)]
    /\ incidentData = [c \in Clients |-> NotLoaded]

\* SpecList: the incident list over a table of reports whose titles and
\* descriptions differ in case, with the search box and both filters.
ListForms ==
    { [PlainForm EXCEPT !.title = <<"A", "b">>, !.description = <<"c">>, !.priority = "high"],
      [PlainForm EXCEPT !.title = <<"c">>, !.description = <<"b", "a">>, !.priority = "low"] }

Searches == {<<>>, <<"a", "B">>, <<"B", "A">>}

InitListed == InitStored(ListForms, {"open", "resolved"}, 1..MaxClock)

NextList ==
    \/ Auth("c1", {"u1"})
    \/ FetchIncidents("c1")
    \/ \E q \in Searches : SetSearchQuery("c1", q)
    \/ \E sf \in {"all", "open", "resolved"} : SetStatusFilter("c1", sf)
    \/ \E pf \in {"all", "high"} : SetPriorityFilter("c1", pf)

SpecList == InitListed /\ [][NextList]_vars

\* SpecAnalytics: the analytics panel over a table of reports in every
\* status, whose locations are a name and two room numbers, all filed
\* within one tick of the clock, so that the query may return them in any
\* order.
AnalyticsForms ==
    { [PlainForm EXCEPT !.category = "theft", !.location = <<"L">>, !.priority = "critical"],
      [PlainForm EXCEPT !.category = "fire", !.location = <<"7">>, !.priority = "high"],
      [PlainForm EXCEPT !.category = "fire", !.location = <<"1", "2">>, !.priority = "low"] }

InitAnalytics == InitStored(AnalyticsForms, Statuses, {MaxClock})

NextAnalytics ==
    \/ Auth("c1", {"u1"})
    \/ FetchAnalytics("c1")

SpecAnalytics == InitAnalytics /\ [][NextAnalytics]_vars

\* SpecRace: two browser sessions, account u1 in one and u2 in the other,
\* open the details of the same incident and each changes its status once;
\* the awaits of the two calls interleave in every order while the clock
\* advances.
NextRace ==
    \/ Tick
    \/ SignIn("c1", "u1")
    \/ SignIn("c2", "u2")
    \/ \E c \in Clients :
         \/ OpenDetails(c, 1)
         \/ \E s \in {"resolved", "in_progress"} : SelectStatusOnce(c, s)
         \/ UpdateStatusWrite(c)
         \/ UpdateStatusGetUser(c)
         \/ UpdateStatusInsert(c)

SpecRace == InitDetails /\ [][NextRace]_vars

\* A status is picked in a dialog that has rendered.
SelectRendered(c, s) ==
    /\ Rendered(c)
    /\ SelectStatus(c, s)

\* SpecSelector: two browser sessions, account u1 in one and u2 in the
\* other, open the details of the same incident; each fetches the incident
\* whenever its query runs and changes the status through the selector.
NextSelector ==
    \/ SignIn("c1", "u1")
    \/ SignIn("c2", "u2")
    \/ \E c \in Clients :
         \/ OpenDetails(c, 1)
         \/ FetchIncident(c)
         \/ \E s \in {"resolved", "in_progress"} : SelectRendered(c, s)
         \/ UpdateStatusWrite(c)
         \/ UpdateStatusGetUser(c)
         \/ UpdateStatusInsert(c)

SpecSelector == InitDetails /\ [][NextSelector]_vars

(***************************************************************************)
(* Properties.                                                             *)
(***************************************************************************)
IncidentIds == 1..Len(incidents)
UpdateIds == 1..Len(incident_updates)

\* The steps that end a mutation of client c with the given outcome.
Settles(c, op, status) ==
    /\ mutation[c] = Pending(op)
    /\ mutation'[c].status = status

\* C1: in every reachable state each incident's resolved_at is non-null
\* exactly when its status is resolved.
C1_ResolvedAtIffResolved ==
    \A i \in IncidentIds :
        (incidents[i].resolved_at # NullTime) <=> (incidents[i].status = "resolved")

\* An incident that was resolved and then reopened: both status changes are
\* on its timeline, it is open and its resolved_at is null again.
C1_Witness ==
    \E i \in IncidentIds :
        /\ incidents[i].status = "open"
        /\ incidents[i].resolved_at = NullTime
        /\ \E j, k \in UpdateIds :
             /\ j < k
             /\ incident_updates[j].incident_id = i
             /\ incident_updates[k].incident_id = i
             /\ incident_updates[j].content = StatusChangeContent("resolved")
             /\ incident_updates[k].content = StatusChangeContent("open")

\* C2: every updateStatus call that reports success appends exactly one
\* timeline entry, of kind status_change, with content "Status changed to: "
\* + s, authored by the acting account.
C2_SuccessAppendsOneEntry ==
    [][\A c \in Clients :
         Settles(c, "updateStatus", "success") =>
            incident_updates' =
                Append(incident_updates,
                       UpdateRow(arg[c].incidentId, session[c], "status_change",
                                 StatusChangeContent(arg[c].status), now))]_vars

\* C3: updateStatus never reports success when the timeline entry was not
\* written.
C3_NoSuccessWithoutEntry ==
    [][\A c \in Clients :
         Settles(c, "updateStatus", "success") =>
            Len(incident_updates') > Len(incident_updates)]_vars

\* C4: a step of a mutating operation taken while the client has no
\* authenticated account ends the operation with an error and leaves the
\* store unchanged: the operation does not proceed.
C4_UnauthenticatedStopsOperation ==
    [][\A c \in Clients :
         (session[c] = NoUser /\ pc[c] # "idle" /\ pc'[c] # pc[c]) =>
            /\ pc'[c] = "idle"
            /\ mutation'[c].status = "error"
            /\ store' = store]_vars

\* C5: the record createIncident persists has status open and resolved_at
\* null.
C5_CreatedOpenUnresolved ==
    [][Len(incidents') > Len(incidents) =>
         /\ Len(incidents') = Len(incidents) + 1
         /\ incidents'[Len(incidents')].status = "open"
         /\ incidents'[Len(incidents')].resolved_at = NullTime]_vars

\* createIncident has reported success for a critical report.
C5_Witness ==
    /\ mutation["c1"] = [op |-> "createIncident", status |-> "success", error |-> "none"]
    /\ \E i \in IncidentIds :
         /\ incidents[i].priority = "critical"
         /\ incidents[i].status = "open"

\* C6: a new incident's reporter is the account authenticated in the
\* session that creates it, and no step changes the reporter of an
\* incident that exists.
C6_ReporterIsCreator ==
    [][/\ Len(incidents') >= Len(incidents)
       /\ \A i \in IncidentIds : incidents'[i].reporter_id = incidents[i].reporter_id
       /\ Len(incidents') > Len(incidents) =>
            \E c \in Clients :
                /\ pc[c] = "ci_insert"
                /\ pc'[c] = "idle"
                /\ session[c] # NoUser
                /\ incidents'[Len(incidents')].reporter_id = session[c]]_vars

\* An incident reported by u1 that u2 has since moved to resolved and
\* commented on.
C6_Witness ==
    \E i \in IncidentIds :
        /\ incidents[i].reporter_id = "u1"
        /\ incidents[i].status = "resolved"
        /\ \E j, k \in UpdateIds :
             /\ incident_updates[j] = UpdateRow(i, "u2", "status_change",
                                                StatusChangeContent("resolved"), now)
             /\ incident_updates[k] = UpdateRow(i, "u2", "comment", <<"a">>, now)

\* C7: no incident is persisted with an empty title, description, category
\* or location.
C7_NoEmptyRequiredField ==
    \A i \in IncidentIds :
        /\ incidents[i].title # <<>>
        /\ incidents[i].description # <<>>
        /\ incidents[i].category # ""
        /\ incidents[i].location # <<>>

\* C8: the steps of addUpdate leave every incident (status, priority,
\* resolved_at, updated_at) and the bucket unchanged; the only change to
\* the store is the one comment entry a successful call appends.
C8_AddCommentFrame ==
    [][\A c \in Clients :
         (pc[c] \in {"au_getUser", "au_insert"} /\ pc'[c] # pc[c]) =>
            /\ incidents' = incidents
            /\ objects' = objects
            /\ \/ /\ incident_updates' = incident_updates
                  /\ ~Settles(c, "addUpdate", "success")
               \/ /\ incident_updates' =
                        Append(incident_updates,
                               UpdateRow(arg[c].incidentId, user[c], "comment",
                                         arg[c].content, now))
                  /\ Settles(c, "addUpdate", "success")]_vars

\* A comment written after the clock moved on from the incident's last
\* update: the incident's updated_at is older than the comment.
C8_Witness ==
    \E k \in UpdateIds :
        /\ incident_updates[k].update_type = "comment"
        /\ incidents[incident_updates[k].incident_id].status = "resolved"
        /\ incidents[incident_updates[k].incident_id].updated_at
              < incident_updates[k].created_at

\* C9: no addUpdate call runs with empty or whitespace-only content, and no
\* comment entry with such content is on the timeline.
C9_NoBlankComment ==
    /\ \A c \in Clients :
         pc[c] \in {"au_getUser", "au_insert"} => Trim(arg[c].content) # <<>>
    /\ \A k \in UpdateIds :
         incident_updates[k].update_type = "comment" =>
            Trim(incident_updates[k].content) # <<>>

\* Whitespace is typed into the box of a dialog that already took a
\* comment: the button is disabled and no call is in flight.
C9_Witness ==
    \E c \in Clients :
        /\ newUpdate[c] = <<" ">>
        /\ AddUpdateDisabled(c)
        /\ pc[c] = "idle"
        /\ \E k \in UpdateIds :
             /\ incident_updates[k].update_type = "comment"
             /\ incident_updates[k].incident_id = selected[c]

\* C10: a status write that the store answers without error, by any
\* authenticated account and from any current status, leaves the incident
\* in the target status; the entry the call then appends names the target.
C10_AnyTransitionAccepted ==
    [][\A c \in Clients :
         /\ (pc[c] = "us_update" /\ pc'[c] = "us_getUser" /\ session[c] # NoUser) =>
               /\ incidents'[arg[c].incidentId].status = arg[c].status
               /\ incidents'[arg[c].incidentId].reporter_id
                     = incidents[arg[c].incidentId].reporter_id
         /\ (pc[c] = "us_insert" /\ incident_updates' # incident_updates) =>
               incident_updates' =
                   Append(incident_updates,
                          UpdateRow(arg[c].incidentId, session[c], "status_change",
                                    StatusChangeContent(arg[c].status), now))]_vars

\* u2 set the incident u1 reported to closed twice in a row: the second
\* call found it closed and still appended its entry.
C10_Witness ==
    /\ Len(incident_updates) = 2
    /\ incidents[1].reporter_id = "u1"
    /\ incidents[1].status = "closed"
    /\ \A k \in UpdateIds :
         incident_updates[k] = UpdateRow(1, "u2", "status_change",
                                         StatusChangeContent("closed"), now)

\* C11: createIncident is all-or-nothing on the incidents table: a call
\* that ends with an error (Not authenticated, a failed upload, a failed
\* insert) leaves the table as it was and reports the error; a call that
\* ends with success has added exactly one record, the one built from the
\* form; and no other step of the call touches the table.
C11_CreateAllOrNothing ==
    [][\A c \in Clients :
         /\ Settles(c, "createIncident", "error") =>
               /\ incidents' = incidents
               /\ mutation'[c].error # "none"
         /\ Settles(c, "createIncident", "success") =>
               incidents' =
                   Append(incidents,
                          IncidentRow(InsertPayload(arg[c], user[c], evidenceUrls[c]), now))
         /\ (pc[c] \in CreateLabels /\ pc'[c] \in CreateLabels) =>
               incidents' = incidents]_vars

\* The insert failed after the evidence file had been uploaded: the error
\* is reported, the file is in the bucket and no incident was recorded.
C11_Witness ==
    /\ mutation["c1"] = [op |-> "createIncident", status |-> "error", error |-> "insert"]
    /\ objects # {}
    /\ incidents = <<>>

\* C12: records are append-only: every step keeps every timeline entry
\* that exists, at its place and with identical fields, and keeps every
\* incident.
C12_AppendOnly ==
    [][/\ Len(incident_updates') >= Len(incident_updates)
       /\ \A k \in UpdateIds : incident_updates'[k] = incident_updates[k]
       /\ Len(incidents') >= Len(incidents)]_vars

\* Two status changes of the same incident follow each other on the
\* timeline: the entry of the first is still there after the second.
C12_Witness ==
    /\ Len(incidents) = 1
    /\ Len(incident_updates) = 2
    /\ incident_updates[1].update_type = "status_change"
    /\ incident_updates[2].update_type = "status_change"
    /\ incident_updates[1].incident_id = incident_updates[2].incident_id
    /\ incident_updates[1].content # incident_updates[2].content

\* The place of the row with the given id in a fetched list.
Place(rows, id) == CHOOSE k \in DOMAIN rows : rows[k].id = id

\* C13: a fetch answered to an authenticated session holds every incident
\* of the table exactly once, newest first; with no filter the list shown
\* is the fetched list; with a status filter s alone the list shown holds
\* exactly the fetched incidents of status s, each once, in the order they
\* have in the fetched list.
C13_ListOrderAndStatusFilter ==
    [][\A c \in Clients :
         LET rows == listData'[c].rows
             shown == filteredIncidents'[c].rows
         IN /\ (listData'[c] # listData[c] /\ session[c] # NoUser) =>
                  /\ Len(rows) = Len(incidents)
                  /\ \A i \in 1..Len(incidents) :
                        \E k \in DOMAIN rows : rows[k] = SelectedRow(i)
                  /\ \A a, b \in DOMAIN rows :
                        a < b => rows[a].created_at >= rows[b].created_at
            /\ (/\ listData'[c].loaded
                /\ searchQuery'[c] = <<>>
                /\ statusFilter'[c] = "all"
                /\ priorityFilter'[c] = "all") =>
                  filteredIncidents'[c] = listData'[c]
            /\ (/\ listData'[c].loaded
                /\ searchQuery'[c] = <<>>
                /\ statusFilter'[c] # "all"
                /\ priorityFilter'[c] = "all") =>
                  /\ \A k \in DOMAIN rows :
                        (rows[k].status = statusFilter'[c]) <=>
                           (\E j \in DOMAIN shown : shown[j] = rows[k])
                  /\ \A j \in DOMAIN shown : \E k \in DOMAIN rows : rows[k] = shown[j]
                  /\ \A i, j \in DOMAIN shown :
                        i < j => Place(rows, shown[i].id) < Place(rows, shown[j].id)]_vars

\* Two incidents filed at different times are listed newest first, the
\* newer is open and the older resolved; the status filter "resolved"
\* shows the older one alone.
C13_Witness ==
    LET rows == listData["c1"].rows
        shown == filteredIncidents["c1"].rows
    IN /\ listData["c1"].loaded
       /\ Len(rows) >= 2
       /\ rows[1].created_at > rows[2].created_at
       /\ rows[1].status = "open"
       /\ rows[2].status = "resolved"
       /\ statusFilter["c1"] = "resolved"
       /\ searchQuery["c1"] = <<>>
       /\ priorityFilter["c1"] = "all"
       /\ Len(shown) >= 1
       /\ shown[1] = rows[2]

\* Two texts that differ in the case of their letters at most.
SameIgnoringCase(s, t) ==
    /\ Len(s) = Len(t)
    /\ \A k \in 1..Len(s) : LowerCaseLetter(s[k]) = LowerCaseLetter(t[k])

\* q is, up to case, a run of consecutive letters of text.
SubstringIgnoringCase(q, text) ==
    \E a \in 1..(Len(text) + 1) : \E b \in (a - 1)..Len(text) :
        SameIgnoringCase(SubSeq(text, a, b), q)

\* C14: the list shown is the intersection of the three predicates: a
\* fetched incident is shown iff the search text is empty or is, up to
\* case, a substring of its title or of its description, and the status
\* filter is "all" or its status, and the priority filter is "all" or its
\* priority; nothing else is shown.
C14_FiltersIntersect ==
    [][\A c \in Clients :
         LET rows == listData'[c].rows
             shown == filteredIncidents'[c].rows
             q == searchQuery'[c]
         IN listData'[c].loaded =>
              /\ \A k \in DOMAIN rows :
                    (\E j \in DOMAIN shown : shown[j] = rows[k]) <=>
                       /\ \/ q = <<>>
                          \/ SubstringIgnoringCase(q, rows[k].title)
                          \/ SubstringIgnoringCase(q, rows[k].description)
                       /\ statusFilter'[c] \in {"all", rows[k].status}
                       /\ priorityFilter'[c] \in {"all", rows[k].priority}
              /\ \A j \in DOMAIN shown : \E k \in DOMAIN rows : rows[k] = shown[j]
              /\ Len(shown) <= Len(rows)]_vars

\* The search "aB" with the filters open and high shows the open high
\* incident titled "Ab" and hides an open one whose texts do not hold the
\* search text.
C14_Witness ==
    LET rows == listData["c1"].rows
        shown == filteredIncidents["c1"].rows
    IN /\ listData["c1"].loaded
       /\ searchQuery["c1"] = <<"a", "B">>
       /\ statusFilter["c1"] = "open"
       /\ priorityFilter["c1"] = "high"
       /\ Len(shown) = 1
       /\ shown[1].title = <<"A", "b">>
       /\ \E k \in DOMAIN rows : rows[k].title = <<"c">> /\ rows[k].status = "open"

\* C15: for the incident sequence xs the panel was computed from, total is
\* the length of xs; each of the four status counts is the number of
\* incidents of that status and the four sum to total; critical and high
\* are the numbers of incidents of that priority; and for the empty
\* sequence every count is zero and both mappings are empty.
C15_SummaryCounts ==
    \A c \in Clients :
        LET xs == analytics[c].data.rows
            s == analytics[c].stats
        IN /\ s.total = Len(xs)
           /\ s.open = Cardinality({k \in DOMAIN xs : xs[k].status = "open"})
           /\ s.inProgress = Cardinality({k \in DOMAIN xs : xs[k].status = "in_progress"})
           /\ s.resolved = Cardinality({k \in DOMAIN xs : xs[k].status = "resolved"})
           /\ s.closed = Cardinality({k \in DOMAIN xs : xs[k].status = "closed"})
           /\ s.open + s.inProgress + s.resolved + s.closed = s.total
           /\ s.critical = Cardinality({k \in DOMAIN xs : xs[k].priority = "critical"})
           /\ s.high = Cardinality({k \in DOMAIN xs : xs[k].priority = "high"})
           /\ xs = <<>> =>
                 /\ s = [total |-> 0, open |-> 0, inProgress |-> 0, resolved |-> 0,
                         closed |-> 0, critical |-> 0, high |-> 0]
                 /\ analytics[c].categoryStats.keys = <<>>
                 /\ analytics[c].locationStats.keys = <<>>

\* The panel over two incidents: one in progress and critical, one closed
\* and high, none open or resolved.
C15_Witness ==
    /\ analytics["c1"].data.loaded
    /\ analytics["c1"].stats =
          [total |-> 2, open |-> 0, inProgress |-> 1, resolved |-> 0,
           closed |-> 1, critical |-> 1, high |-> 1]

\* The labels of a top list are the n most frequent of the sequence labels,
\* most frequent first and, among equally frequent ones, first seen first.
TopByCount(top, labels, n) ==
    LET distinct == {labels[k] : k \in DOMAIN labels}
        Count(l) == Cardinality({k \in DOMAIN labels : labels[k] = l})
        FirstSeen(l) == CHOOSE k \in DOMAIN labels :
                            labels[k] = l /\ \A j \in 1..(k - 1) : labels[j] # l
        Ahead(l, m) ==
            \/ Count(l) > Count(m)
            \/ Count(l) = Count(m) /\ FirstSeen(l) < FirstSeen(m)
    IN /\ Len(top) = IF Cardinality(distinct) < n THEN Cardinality(distinct) ELSE n
       /\ \A r \in DOMAIN top : top[r][1] \in distinct /\ top[r][2] = Count(top[r][1])
       /\ \A r, q \in DOMAIN top : r < q => Ahead(top[r][1], top[q][1])
       /\ \A l \in distinct :
             (\A r \in DOMAIN top : top[r][1] # l) =>
                \A r \in DOMAIN top : Ahead(top[r][1], l)

\* C16: the top categories and the top locations are the TopShown most
\* frequent labels of the incidents the panel was computed from, in
\* descending count order, equal counts in first-encountered order,
\* whatever the label text.
C16_TopByCountFirstSeen ==
    \A c \in Clients :
        LET xs == analytics[c].data.rows
        IN /\ TopByCount(analytics[c].topCategories,
                         [k \in DOMAIN xs |-> xs[k].category], TopShown)
           /\ TopByCount(analytics[c].topLocations,
                         [k \in DOMAIN xs |-> xs[k].location], TopShown)

\* C17: when the panel is computed from an empty incident list the widths
\* of the critical and the high bar are the number zero, in percent.
C17_ZeroTotalZeroPercent ==
    \A c \in Clients :
        (analytics[c].data.loaded /\ analytics[c].stats.total = 0) =>
            /\ analytics[c].criticalWidth.number.kind = "number"
            /\ analytics[c].criticalWidth.number.num = 0
            /\ analytics[c].highWidth.number.kind = "number"
            /\ analytics[c].highWidth.number.num = 0

UpdateStatusLabels == {"us_update", "us_getUser", "us_insert"}

\* C18: in a run where one client changes statuses, a status write that
\* fails ends the call with the store unchanged; a timeline entry is only
\* appended by the last await of a call, after its status write; and when a
\* call appends its entry the incident is in the status the entry names,
\* so that no entry stands for a write that did not take effect.
C18_EntryOnlyAfterEffectiveWrite ==
    [][\A c \in Clients :
         /\ (pc[c] = "us_update" /\ Settles(c, "updateStatus", "error")) =>
               store' = store
         /\ (pc[c] \in {"us_update", "us_getUser"} /\ pc'[c] # pc[c]) =>
               incident_updates' = incident_updates
         /\ (pc[c] = "us_insert" /\ incident_updates' # incident_updates) =>
               incidents[arg[c].incidentId].status = arg[c].status]_vars

\* C19: when the calls of two accounts on the same incident interleave,
\* every status write that is applied sets the status to its own target
\* and resolved_at to non-null exactly when that target is resolved, no
\* other step changes the incident, so the last write applied decides
\* both; every accepted timeline insert appends the one entry of its call;
\* and once both calls have appended, the timeline holds exactly the two
\* entries, one per account.
C19_ConcurrentTransitions ==
    [][/\ \A c \in Clients :
            /\ (pc[c] = "us_update" /\ pc'[c] = "us_getUser") =>
                  /\ incidents'[arg[c].incidentId].status = arg[c].status
                  /\ (incidents'[arg[c].incidentId].resolved_at # NullTime)
                        <=> (arg[c].status = "resolved")
            /\ (pc[c] = "us_insert" /\ pc'[c] = "idle"
                   /\ incident_updates' # incident_updates) =>
                  incident_updates' =
                      Append(incident_updates,
                             UpdateRow(arg[c].incidentId, session[c], "status_change",
                                       StatusChangeContent(arg[c].status), now))
       /\ incidents' # incidents =>
             \E c \in Clients : pc[c] = "us_update" /\ pc'[c] = "us_getUser"
       /\ incident_updates' # incident_updates =>
             \E c \in Clients : pc[c] = "us_insert" /\ pc'[c] = "idle"
       /\ (/\ \A c \in Clients : statusUpdate'[c] # "" /\ pc'[c] = "idle"
           /\ Len(incident_updates') >= Cardinality(Clients)) =>
             /\ Len(incident_updates') = Cardinality(Clients)
             /\ \A c \in Clients :
                   \E k \in DOMAIN incident_updates' :
                       /\ incident_updates'[k].user_id = session'[c]
                       /\ incident_updates'[k].update_type = "status_change"
                       /\ incident_updates'[k].content = StatusChangeContent(statusUpdate'[c])
             /\ \E c \in Clients : incidents'[1].status = statusUpdate'[c]
             /\ (incidents'[1].resolved_at # NullTime)
                   <=> (incidents'[1].status = "resolved")]_vars

\* u1 resolved the incident, then u2 set it to in progress, and u2's entry
\* was appended before u1's: the incident is in progress with resolved_at
\* null and both entries are on the timeline.
C19_Witness ==
    /\ \A c \in Clients : pc[c] = "idle" /\ mutation[c].status = "success"
    /\ incidents[1].status = "in_progress"
    /\ incidents[1].resolved_at = NullTime
    /\ Len(incident_updates) = 2
    /\ incident_updates[1].user_id = "u2"
    /\ incident_updates[1].content = StatusChangeContent("in_progress")
    /\ incident_updates[2].user_id = "u1"
    /\ incident_updates[2].content = StatusChangeContent("resolved")
    /\ incident_updates[1].created_at < incident_updates[2].created_at

\* The status_change entries of incident i, oldest first.
StatusChanges(i) ==
    SelectSeq(incident_updates,
              LAMBDA u : u.incident_id = i /\ u.update_type = "status_change")

\* The clients that have asked for a status change of incident i; each
\* asks once per dialog.
Callers(i) == {c \in Clients : selected[c] = i /\ statusUpdate[c] # ""}

\* C20: when no updateStatus call is in flight, every call made on an
\* incident has reported success and has its entry on the timeline, the
\* entry appended last names the status the incident is in.
C20_LatestEntryNamesStatus ==
    \A i \in IncidentIds :
        (/\ \A c \in Clients : pc[c] \notin UpdateStatusLabels
         /\ Callers(i) # {}
         /\ \A c \in Callers(i) :
               mutation[c] = [op |-> "updateStatus", status |-> "success", error |-> "none"]
         /\ Len(StatusChanges(i)) = Cardinality(Callers(i))) =>
            StatusChanges(i)[Len(StatusChanges(i))].content
                = StatusChangeContent(incidents[i].status)

\* C21: a createIncident call with n evidence files that succeeds records
\* an evidence_urls list of exactly n locators, the i-th being the public
\* URL of the path the i-th file was uploaded to, and the n paths are
\* pairwise distinct objects of the bucket; each upload that is accepted
\* creates a new object named after the i-th file and pushes its URL.
C21_EvidenceLocators ==
    [][\A c \in Clients :
         /\ (pc[c] = "ci_upload" /\ pc'[c] \in {"ci_upload", "ci_insert"}
                /\ evidenceUrls'[c] # evidenceUrls[c]) =>
               LET i == Len(evidenceUrls[c]) + 1
                   path == FileName(user[c], now, arg[c].files[i])
               IN /\ path \notin objects
                  /\ objects' = objects \cup {path}
                  /\ evidenceUrls'[c] = Append(evidenceUrls[c], PublicUrl(path))
         /\ Settles(c, "createIncident", "success") =>
               LET urls == incidents'[Len(incidents')].evidence_urls
               IN /\ Len(incidents') = Len(incidents) + 1
                  /\ urls = evidenceUrls[c]
                  /\ Len(urls) = Len(arg[c].files)
                  /\ \A i \in DOMAIN urls :
                        /\ urls[i] = PublicUrl(urls[i].path)
                        /\ urls[i].path.ext = arg[c].files[i]
                        /\ urls[i].path.uid = user[c]
                        /\ urls[i].path \in objects'
                  /\ \A i, j \in DOMAIN urls :
                        i # j => urls[i].path # urls[j].path
                  /\ Cardinality({urls[i].path : i \in DOMAIN urls}) = Len(arg[c].files)]_vars

\* A report with two png files succeeded: the second file was uploaded a
\* clock tick after the first, and the record lists both locators in order.
C21_Witness ==
    /\ mutation["c1"] = [op |-> "createIncident", status |-> "success", error |-> "none"]
    /\ Len(incidents) = 1
    /\ Len(incidents[1].evidence_urls) = 2
    /\ incidents[1].evidence_urls[1].path.ext = "png"
    /\ incidents[1].evidence_urls[2].path.ext = "png"
    /\ incidents[1].evidence_urls[1].path.time < incidents[1].evidence_urls[2].path.time
    /\ Cardinality(objects) = 2

\* The second of two png files was uploaded within the clock tick of the
\* first: its path is taken, the upload is refused and the call fails.
C21_SameTickRefused ==
    /\ mutation["c1"] = [op |-> "createIncident", status |-> "error", error |-> "upload"]
    /\ objects = {FileName("u1", now, "png")}
    /\ session["c1"] = "u1"
    /\ incidents = <<>>

\* The data of client c's incident query is what the store answers now.
Refetched(c) ==
    /\ Rendered(c)
    /\ incidentData[c] = SelectIncident(session[c], selected[c])

\* C22: in a details dialog whose updateStatus call has settled, with
\* success or with an error, and whose incident query holds the store's
\* current row, the value of the status selector is the incident's status
\* in the store, also when another session has changed the status since.
C22_SelectorShowsStoredStatus ==
    \A c \in Clients :
        (/\ Refetched(c)
         /\ pc[c] = "idle"
         /\ mutation[c].op = "updateStatus"
         /\ mutation[c].status \in {"success", "error"}) =>
            SelectValue(c) = incidents[selected[c]].status

====
